---- MODULE Spec2Model ----
(***************************************************************************)
(* FeelUOwn application core (feeluown/app.py): session state persistence  *)
(* (load_state / dump_state), the resume hook armed on restore, the       *)
(* run_app / _shutdown_app shutdown sequence, the composition of the app   *)
(* by mode (attach_attrs, init_app, the tasks of run_app), and the         *)
(* progress-reporting blocks of create_action.                             *)
(*                                                                         *)
(* Optional values (Python None) are sequences of length at most one:      *)
(* None is the empty sequence, Some(x) the one-element sequence.           *)
(***************************************************************************)
EXTENDS Integers, Sequences, FiniteSets, TLC

VARIABLES
    mode,            \* app.mode, the AppMode bitset (config.MODE)
    library,         \* providers registered in Resolver.library of this process
    file,            \* content of STATE_FILE on disk
    volume,          \* player.volume
    playback_mode,   \* playlist.playback_mode
    playlist,        \* playlist.list(), the ordered songs
    current_song,    \* playlist.current_song / player.current_song
    media,           \* the media the player currently holds (old_media of the next change)
    pending,         \* a media of current_song is being prepared, player.play will follow
    pstate,          \* player.state
    position,        \* player.position
    play_range,      \* start of the play range set by player.set_play_range
    receivers,       \* closures connected to player.media_about_to_changed
    alive,           \* the player's engine has not been shut down
    aio_support,     \* Signal aio support is set up
    ui_shown,        \* ui.table_container shows the player playlist
    phase,           \* position of the process in its lifecycle
    exit_cause,      \* how loop.run_forever was left
    raised,          \* the exception that escaped the last operation
    error_logged,    \* logger.exception('invalid state file') was called
    trace,           \* shutdown events of this process, in order
    shutdown_calls,  \* calls of _shutdown_app in this process
    runs,            \* processes started so far
    resumes,         \* player.resume() calls made by the resume hook in this process
    dumped,          \* the live session held by the file, when a dump_state wrote it
    steps,           \* user and player actions taken so far in this behaviour
    attrs,           \* the attributes attach_attrs has set on app, in order
    started,         \* what init_app and run_app have connected, initialised or started
    tasks,           \* the tasks run_app handed to the event loop, each with its status
    platform,        \* sys.platform of the machine
    actions,         \* the create_action calls made so far, each with its outcome
    msgs,            \* the messages given to show_msg, in order
    exc              \* the exception travelling up from a create_action block

vars == <<mode, library, file, volume, playback_mode, playlist, current_song,
          media, pending, pstate, position, play_range, receivers, alive,
          aio_support, ui_shown, phase, exit_cause, raised, error_logged,
          trace, shutdown_calls, runs, resumes, dumped, steps,
          attrs, started, tasks, platform, actions, msgs, exc>>

playerVars == <<volume, playback_mode, playlist, current_song, media, pending,
                pstate, position, play_range, receivers, ui_shown>>

\* what create_action and its blocks change
actionVars == <<actions, msgs, exc>>

\* the composition of the app: its attributes, what is wired up, the tasks
compVars == <<attrs, started, tasks, platform>>

\* everything create_action and its blocks leave alone
appVars == <<mode, library, file, playerVars, alive, aio_support, phase, exit_cause,
             raised, error_logged, trace, shutdown_calls, runs, resumes, dumped, steps,
             compVars>>

\* everything attach_attrs, init_app and the tasks of the loop leave alone
restVars == <<mode, library, file, playerVars, alive, aio_support, exit_cause,
              error_logged, trace, shutdown_calls, runs, resumes, dumped, steps,
              platform, actionVars>>

(***************************************************************************)
(* Bounds of the model.                                                    *)
(***************************************************************************)
MaxLen == 3            \* longest playlist, live or persisted
MaxShutdownCalls == 2  \* calls of _shutdown_app per process
MaxRuns == 2           \* processes (start .. exit) in one behaviour
MaxSteps == 4          \* user and player actions in one behaviour
MaxActions == 2        \* create_action calls in one behaviour
MaxProgress == 1       \* set_progress calls in one behaviour

None == <<>>
Some(x) == <<x>>

(***************************************************************************)
(* App mode bits.                                                          *)
(***************************************************************************)
DaemonMode == 1
GuiMode == 16
CliMode == 256

HasBit(m, bit) == (m \div bit) % 2 = 1

\* the modes the program is started in
AppModes == {DaemonMode, GuiMode, CliMode}

\* every combination of the three mode bits
AllModes ==
    {d + g + c : d \in {0, DaemonMode}, g \in {0, GuiMode}, c \in {0, CliMode}}

Platforms == {"linux", "darwin", "win32"}

(***************************************************************************)
(* attach_attrs: the attributes of app, by mode.                           *)
(***************************************************************************)
CoreAttrs ==
    <<"library", "live_lyric", "player", "playlist", "plugin_mgr", "request",
      "task_mgr", "fm">>
VersionAttrs == <<"version_mgr">>
DaemonAttrs == <<"server", "pubsub_gateway", "_ll_publisher">>
\* the managers, the browser, the ui, and show_msg rebound to ui.magicbox
GuiAttrs ==
    <<"coll_mgr", "theme_mgr", "tips_mgr", "hotkey_mgr", "img_mgr", "pvd_uimgr",
      "pl_uimgr", "mymusic_uimgr", "coll_uimgr", "browser", "ui", "show_msg">>

\* the version manager constructed in daemon mode only
attached_version_mgr_daemon_only(m) ==
    CoreAttrs
    \o (IF HasBit(m, DaemonMode) THEN VersionAttrs ELSE <<>>)
    \o (IF HasBit(m, DaemonMode) THEN DaemonAttrs ELSE <<>>)
    \o (IF HasBit(m, GuiMode) THEN GuiAttrs ELSE <<>>)

\* the server constructed first, under the condition of the version manager
attached_server_first(m) ==
    (IF HasBit(m, DaemonMode) \/ HasBit(m, GuiMode) THEN <<"server">> ELSE <<>>)
    \o CoreAttrs
    \o (IF HasBit(m, DaemonMode) \/ HasBit(m, GuiMode) THEN VersionAttrs ELSE <<>>)
    \o (IF HasBit(m, DaemonMode) THEN <<"pubsub_gateway", "_ll_publisher">> ELSE <<>>)
    \o (IF HasBit(m, GuiMode) THEN GuiAttrs ELSE <<>>)

\* the attributes attach_attrs sets on an app of mode m, in the order it sets them
attached(m) ==
    CoreAttrs
    \o (IF HasBit(m, DaemonMode) \/ HasBit(m, GuiMode) THEN VersionAttrs ELSE <<>>)
    \o (IF HasBit(m, DaemonMode) THEN DaemonAttrs ELSE <<>>)
    \o (IF HasBit(m, GuiMode) THEN GuiAttrs ELSE <<>>)

\* app.<name> is set; reading an attribute that is not raises AttributeError
Has(name) == \E i \in 1..Len(attrs) : attrs[i] = name

\* the attributes of app init_app reads
init_app_reads(m) ==
    {"player", "live_lyric", "playlist", "plugin_mgr"}
    \cup (IF HasBit(m, DaemonMode) THEN {"_ll_publisher"} ELSE {})
    \cup (IF HasBit(m, GuiMode)
          THEN {"theme_mgr", "tips_mgr", "coll_uimgr", "browser"} ELSE {})

\* what init_app connects, scans, initialises and shows
init_app_started(m) ==
    {"live_lyric.on_position_changed", "live_lyric.on_song_changed", "plugin_mgr.scan"}
    \cup (IF HasBit(m, DaemonMode) THEN {"_ll_publisher.publish"} ELSE {})
    \cup (IF HasBit(m, GuiMode)
          THEN {"theme_mgr.initialize", "tips_mgr.show_random_tip",
                "coll_uimgr.initialize", "browser.initialize", "show"}
          ELSE {})

\* the attributes of app run_app reads
run_app_reads(m) ==
    (IF HasBit(m, DaemonMode) \/ HasBit(m, GuiMode) THEN {"version_mgr"} ELSE {})
    \cup (IF HasBit(m, DaemonMode) THEN {"server", "pubsub_gateway"} ELSE {})

Task(n, s) == [name |-> n, status |-> s]

\* the version check scheduled in daemon mode only
run_app_tasks_daemon_only(m) ==
    IF HasBit(m, DaemonMode)
    THEN {Task("check_release", "delayed"), Task("server.run", "created"),
          Task("start_server", "created")}
    ELSE {}

\* the tasks run_app hands to the loop: check_release through call_later,
\* server.run and asyncio.start_server through create_task
run_app_tasks(m) ==
    (IF HasBit(m, DaemonMode) \/ HasBit(m, GuiMode)
     THEN {Task("check_release", "delayed")} ELSE {})
    \cup (IF HasBit(m, DaemonMode)
          THEN {Task("server.run", "created"), Task("start_server", "created")}
          ELSE {})

\* the OS integration run_app can end up starting: on darwin the import of
\* the hotkey manager may fail, which is logged
run_app_shims(m, p) ==
    IF ~HasBit(m, DaemonMode) THEN {{}}
    ELSE IF p = "darwin" THEN {{"mac_global_hotkey_mgr"}, {}}
    ELSE IF p = "linux" THEN {{"mpris2_server"}}
    ELSE {{}}

(***************************************************************************)
(* Songs, reference strings, the resolver contract.                        *)
(***************************************************************************)
Providers == {"local", "netease"}
Idents == 1..2
Songs == [source : Providers, identifier : Idents]

\* reverse(song, as_line=True): 'fuo://<source>/songs/<identifier>\t# <description>'
reverse(song) == <<"fuo", song.source, "songs", song.identifier, "#">>

Refs == {reverse(s) : s \in Songs}

\* resolve(line) raises ResolverNotFound unless the provider is registered
ResolverNotFound(ref) == ref[2] \notin library
resolve(ref) == [source |-> ref[2], identifier |-> ref[4]]

(***************************************************************************)
(* Enumerations written to the file by their value.                        *)
(***************************************************************************)
PlaybackModes == {"one_loop", "sequential", "loop", "random"}
PlaybackModeValue(m) ==
    CASE m = "one_loop" -> 0 [] m = "sequential" -> 1 [] m = "loop" -> 2 [] m = "random" -> 3
PlaybackMode(v) == CHOOSE m \in PlaybackModes : PlaybackModeValue(m) = v

States == {"stopped", "paused", "playing"}
StateValue(s) == CASE s = "stopped" -> 0 [] s = "paused" -> 1 [] s = "playing" -> 2

Volumes == {50, 100}
Positions == {0, 15}
UserModes == {"sequential", "loop"}

(***************************************************************************)
(* The state file.                                                         *)
(***************************************************************************)
Absent == [kind |-> "absent"]           \* no file: open raises FileNotFoundError
Malformed == [kind |-> "malformed"]     \* not JSON (empty or cut short): JSONDecodeError
Misshapen == [kind |-> "misshapen"]     \* JSON, but not an object with the state keys
Json(state) == [kind |-> "json", value |-> state]

BoundedSeq(S, n) == UNION {[1..k -> S] : k \in 0..n}
Opt(S) == {None} \cup {Some(x) : x \in S}

\* the records a state file can hold, every field of a valid value;
\* load_state never reads 'state'
SessionStates ==
    [playback_mode : {PlaybackModeValue(m) : m \in UserModes},
     volume : Volumes,
     state : {StateValue("paused")},
     song : Opt(Refs),
     position : Opt(Positions),
     playlist : BoundedSeq(Refs, MaxLen)]

(***************************************************************************)
(* Player and playlist operations used by app.py.                          *)
(***************************************************************************)
\* playlist.init_from(songs): the list is replaced wholesale
init_from(songs) == songs

\* the closure before_media_change of one load_state call; song is the
\* variable it captures, rebound to the resolved song before it is connected
Hook(song) == [song |-> song]

\* the hook comparing old_media only
before_media_change_old_media_only(h, old_media) ==
    old_media # None

\* before_media_change(old_media, media): does this call resume playback?
before_media_change(h, old_media) ==
    old_media # None \/ current_song # Some(h.song)

\* player.media_about_to_changed.emit(old_media, media), receivers being
\* the resume hooks: a hook that fires disconnects itself, clears the play
\* range and resumes the player
media_about_to_changed_emit(old_media) ==
    LET firing == {h \in receivers : before_media_change(h, old_media)}
    IN /\ receivers' = receivers \ firing
       /\ play_range' = IF firing = {} THEN play_range ELSE None
       /\ pstate' = IF firing = {} THEN pstate ELSE "playing"
       /\ resumes' = resumes + Cardinality(firing)

(***************************************************************************)
(* App.load_state                                                          *)
(***************************************************************************)
\* the loop over state['playlist']: songs.append(resolve(song)) unless
\* ResolverNotFound
\* the loop leaving at the first reference that does not resolve
RECURSIVE resolve_playlist_break(_)
resolve_playlist_break(refs) ==
    IF refs = <<>> \/ ResolverNotFound(Head(refs)) THEN <<>>
    ELSE <<resolve(Head(refs))>> \o resolve_playlist_break(Tail(refs))

RECURSIVE resolve_playlist(_)
resolve_playlist(refs) ==
    IF refs = <<>> THEN <<>>
    ELSE LET n == Len(refs)
             songs == resolve_playlist(SubSeq(refs, 1, n - 1))
         IN IF ResolverNotFound(refs[n]) THEN songs
            ELSE Append(songs, resolve(refs[n]))

\* FileNotFoundError not handled
file_not_found_raises ==
    /\ raised' = Some("FileNotFoundError")
    /\ UNCHANGED <<playerVars, error_logged>>

\* except FileNotFoundError: pass
file_not_found ==
    /\ raised' = None
    /\ UNCHANGED <<playerVars, error_logged>>

\* JSONDecodeError not handled
invalid_state_file_raises ==
    /\ raised' = Some("JSONDecodeError")
    /\ UNCHANGED <<playerVars, error_logged>>

\* except json.decoder.JSONDecodeError: logger.exception('invalid state file')
invalid_state_file ==
    /\ error_logged' = TRUE
    /\ raised' = None
    /\ UNCHANGED playerVars

\* state['volume'] on a JSON value without the key: the KeyError leaves load_state
missing_key ==
    /\ raised' = Some("KeyError")
    /\ UNCHANGED <<playerVars, error_logged>>

\* the hook connected and the player paused before the reference is resolved
preload_song_pause_first(state) ==
    IF state.song # None
    THEN IF ~ResolverNotFound(state.song[1])
         THEN LET song == resolve(state.song[1])
              IN /\ receivers' = receivers \cup {Hook(song)}
                 /\ pstate' = "paused"
                 /\ play_range' = state.position
                 /\ current_song' = Some(song)
                 /\ pending' = TRUE
         ELSE /\ receivers' = receivers \cup {Hook(resolve(state.song[1]))}
              /\ pstate' = "paused"
              /\ UNCHANGED <<play_range, current_song, pending>>
    ELSE UNCHANGED <<receivers, pstate, play_range, current_song, pending>>

\* the song is preloaded only when it is one of the installed playlist entries
preload_song_if_listed(state) ==
    IF /\ state.song # None
       /\ ~ResolverNotFound(state.song[1])
       /\ \E i \in 1..Len(playlist') : playlist'[i] = resolve(state.song[1])
    THEN LET song == resolve(state.song[1])
         IN /\ receivers' = receivers \cup {Hook(song)}
            /\ pstate' = "paused"
            /\ play_range' = state.position
            /\ current_song' = Some(song)
            /\ pending' = TRUE
    ELSE UNCHANGED <<receivers, pstate, play_range, current_song, pending>>

\* song = state['song'] and what follows: the hook is connected, the player
\* paused, the play range set and the song loaded when the reference resolves
preload_song(state) ==
    IF state.song # None /\ ~ResolverNotFound(state.song[1])
    THEN LET song == resolve(state.song[1])
         IN /\ receivers' = receivers \cup {Hook(song)}
            /\ pstate' = "paused"
            /\ play_range' = state.position
            /\ current_song' = Some(song)
            /\ pending' = TRUE
    ELSE UNCHANGED <<receivers, pstate, play_range, current_song, pending>>

load_state ==
    CASE file.kind = "absent" -> file_not_found
      [] file.kind = "malformed" -> invalid_state_file
      [] file.kind = "misshapen" -> missing_key
      [] file.kind = "json" ->
            LET state == file.value
                songs == resolve_playlist(state.playlist)
            IN /\ volume' = state.volume
               /\ playback_mode' = PlaybackMode(state.playback_mode)
               /\ playlist' = init_from(songs)
               /\ IF songs # <<>> /\ HasBit(mode, GuiMode) /\ ~Has("ui")
                  THEN /\ raised' = Some("AttributeError")
                       /\ UNCHANGED <<ui_shown, receivers, pstate, play_range,
                                      current_song, pending>>
                  ELSE /\ ui_shown' = (ui_shown \/ (songs # <<>> /\ HasBit(mode, GuiMode)))
                       /\ preload_song(state)
                       /\ raised' = None
               /\ UNCHANGED <<media, position, error_logged>>

(***************************************************************************)
(* Process start: create_app, init_app, then initialized is emitted.       *)
(***************************************************************************)
\* the state of a process after create_app and init_app
Fresh ==
    [volume |-> 100, playback_mode |-> "loop", playlist |-> <<>>, current_song |-> None,
     media |-> None, pending |-> FALSE, pstate |-> "stopped", position |-> 0,
     play_range |-> None, receivers |-> {}, alive |-> TRUE, aio_support |-> TRUE,
     ui_shown |-> FALSE, phase |-> "attached", exit_cause |-> None, raised |-> None,
     error_logged |-> FALSE, trace |-> <<>>, shutdown_calls |-> 0, resumes |-> 0]

\* player, playlist and bookkeeping of a process that has not run anything
FreshSession ==
    /\ volume = Fresh.volume
    /\ playback_mode = Fresh.playback_mode
    /\ playlist = Fresh.playlist
    /\ current_song = Fresh.current_song
    /\ media = Fresh.media
    /\ pending = Fresh.pending
    /\ pstate = Fresh.pstate
    /\ position = Fresh.position
    /\ play_range = Fresh.play_range
    /\ receivers = Fresh.receivers
    /\ alive = Fresh.alive
    /\ aio_support = Fresh.aio_support
    /\ ui_shown = Fresh.ui_shown
    /\ exit_cause = Fresh.exit_cause
    /\ raised = Fresh.raised
    /\ error_logged = Fresh.error_logged
    /\ trace = Fresh.trace
    /\ shutdown_calls = Fresh.shutdown_calls
    /\ resumes = Fresh.resumes

FreshProcess ==
    /\ FreshSession
    /\ phase = Fresh.phase
    /\ attrs = attached(mode)
    /\ started = init_app_started(mode)
    /\ tasks = {}

\* no create_action call has been made
NoAction ==
    /\ actions = <<>>
    /\ msgs = <<>>
    /\ exc = None

Init ==
    /\ mode \in AppModes
    /\ library = Providers
    /\ file \in {Absent, Malformed, Misshapen}
    /\ runs = 1
    /\ dumped = None
    /\ steps = 0
    /\ platform = "linux"
    /\ NoAction
    /\ FreshProcess

\* initialized.emit(app): the receiver connected in App.__init__ runs load_state
initialized_emit ==
    /\ phase = "attached"
    /\ load_state
    /\ phase' = IF raised' = None THEN "initialized" ELSE "crashed"
    /\ UNCHANGED <<mode, library, file, alive, aio_support, exit_cause, trace,
                   shutdown_calls, runs, resumes, dumped, steps, compVars, actionVars>>

\* attach_attrs(app), called by create_app on the app just constructed
attach_attrs ==
    /\ phase = "constructed"
    /\ attrs' = attached(mode)
    /\ phase' = "created"
    /\ UNCHANGED <<restVars, raised, started, tasks>>

\* init_app(app)
init_app ==
    /\ phase = "created"
    /\ IF \A n \in init_app_reads(mode) : Has(n)
       THEN /\ started' = started \cup init_app_started(mode)
            /\ phase' = "attached"
            /\ raised' = None
       ELSE /\ raised' = Some("AttributeError")
            /\ phase' = "crashed"
            /\ UNCHANGED started
    /\ UNCHANGED <<restVars, attrs, tasks>>

\* run_app up to loop.run_forever()
run_app ==
    /\ phase = "initialized"
    /\ IF \A n \in run_app_reads(mode) : Has(n)
       THEN /\ tasks' = run_app_tasks(mode)
            /\ \E shims \in run_app_shims(mode, platform) : started' = started \cup shims
            /\ phase' = "running"
            /\ UNCHANGED raised
       ELSE /\ raised' = Some("AttributeError")
            /\ phase' = "crashed"
            /\ UNCHANGED <<tasks, started>>
    /\ UNCHANGED <<restVars, attrs>>

\* run_app_once up to loop.run_until_complete(future): nothing is scheduled
run_app_once ==
    /\ phase = "initialized"
    /\ phase' = "running_once"
    /\ UNCHANGED <<restVars, raised, compVars>>

(***************************************************************************)
(* The tasks of the loop while run_forever runs.                           *)
(***************************************************************************)
\* the 10 seconds of call_later are over: create_task(check_release())
call_later_due ==
    /\ phase = "running"
    /\ Task("check_release", "delayed") \in tasks
    /\ tasks' = (tasks \ {Task("check_release", "delayed")})
                  \cup {Task("check_release", "created")}
    /\ UNCHANGED <<restVars, phase, raised, attrs, started>>

\* a listener task has run: it bound its port, or the bind raised OSError,
\* which ended the task and stays in it
listener_task(name, bound) ==
    (tasks \ {Task(name, "created")})
    \cup {Task(name, IF bound THEN "listening" ELSE "failed")}

\* the task of app.server.run(app.get_listen_addr()); run_forever goes on
\* whether or not the port was bound
server_run(bound) ==
    /\ phase = "running"
    /\ Task("server.run", "created") \in tasks
    /\ tasks' = listener_task("server.run", bound)
    /\ UNCHANGED <<restVars, phase, raised, attrs, started>>

\* the task of asyncio.start_server(client_connected_cb, host, port=23334);
\* run_forever goes on whether or not the port was bound
start_server(bound) ==
    /\ phase = "running"
    /\ Task("start_server", "created") \in tasks
    /\ tasks' = listener_task("start_server", bound)
    /\ UNCHANGED <<restVars, phase, raised, attrs, started>>

(***************************************************************************)
(* The running session: what the user and the player do while the loop     *)
(* runs.                                                                   *)
(***************************************************************************)
Range(q) == {q[i] : i \in 1..Len(q)}

lifecycleVars == <<mode, library, file, alive, aio_support, phase, exit_cause, raised,
                   error_logged, trace, shutdown_calls, runs, dumped, compVars, actionVars>>

\* an action of the running session is taken
Step ==
    /\ phase = "running"
    /\ steps < MaxSteps
    /\ steps' = steps + 1

set_volume(v) ==
    /\ Step
    /\ v # volume
    /\ volume' = v
    /\ UNCHANGED <<lifecycleVars, resumes, playback_mode, playlist, current_song, media,
                   pending, pstate, position, play_range, receivers, ui_shown>>

set_playback_mode(m) ==
    /\ Step
    /\ m # playback_mode
    /\ playback_mode' = m
    /\ UNCHANGED <<lifecycleVars, resumes, volume, playlist, current_song, media,
                   pending, pstate, position, play_range, receivers, ui_shown>>

\* playlist.add(song): a song already in the list is not added again
playlist_add(s) ==
    /\ Step
    /\ s \notin Range(playlist)
    /\ Len(playlist) < MaxLen
    /\ playlist' = Append(playlist, s)
    /\ UNCHANGED <<lifecycleVars, resumes, volume, playback_mode, current_song, media,
                   pending, pstate, position, play_range, receivers, ui_shown>>

\* player.play_song(song): load_song(song), then resume()
play_song(s) ==
    /\ Step
    /\ s \in Range(playlist)
    /\ current_song' = Some(s)
    /\ pending' = TRUE
    /\ pstate' = "playing"
    /\ UNCHANGED <<lifecycleVars, resumes, volume, playback_mode, playlist, media,
                   position, play_range, receivers, ui_shown>>

\* player.play(media) once the media of current_song is prepared:
\* media_about_to_changed.emit(old_media, media), then the media is swapped
player_play ==
    /\ Step
    /\ pending
    /\ current_song # None
    /\ media_about_to_changed_emit(media)
    /\ media' = current_song
    /\ pending' = FALSE
    /\ UNCHANGED <<lifecycleVars, volume, playback_mode, playlist, current_song,
                   position, ui_shown>>

position_changed(p) ==
    /\ Step
    /\ p # position
    /\ position' = p
    /\ UNCHANGED <<lifecycleVars, resumes, volume, playback_mode, playlist, current_song,
                   media, pending, pstate, play_range, receivers, ui_shown>>

\* player.toggle(): pause() when playing, resume() otherwise
toggle ==
    /\ Step
    /\ media # None
    /\ pstate' = IF pstate = "playing" THEN "paused" ELSE "playing"
    /\ UNCHANGED <<lifecycleVars, resumes, volume, playback_mode, playlist, current_song,
                   media, pending, position, play_range, receivers, ui_shown>>

(***************************************************************************)
(* App.dump_state                                                          *)
(***************************************************************************)
\* what can happen to one dump_state call
DumpOutcomes == {"ok", "NotReversible", "OSError"}

\* the live session as dump_state reads it
Session ==
    [volume |-> volume, playback_mode |-> playback_mode, song |-> current_song,
     position |-> position, playlist |-> playlist]

\* the dict with the playlist written back to front
state_dict_reversed ==
    [playback_mode |-> PlaybackModeValue(playback_mode),
     volume |-> volume,
     state |-> StateValue(pstate),
     song |-> IF current_song # None THEN Some(reverse(current_song[1])) ELSE None,
     position |-> Some(position),
     playlist |-> [i \in 1..Len(playlist) |-> reverse(playlist[Len(playlist) + 1 - i])]]

\* the dict built before the file is opened
state_dict ==
    [playback_mode |-> PlaybackModeValue(playback_mode),
     volume |-> volume,
     state |-> StateValue(pstate),
     song |-> IF current_song # None THEN Some(reverse(current_song[1])) ELSE None,
     position |-> Some(position),
     playlist |-> [i \in 1..Len(playlist) |-> reverse(playlist[i])]]

\* the file opened for writing before the songs are reversed
dump_state_open_first(outcome) ==
    /\ outcome = "NotReversible" => (current_song # None \/ playlist # <<>>)
    /\ file' = CASE outcome = "NotReversible" -> Malformed
                 [] outcome = "OSError" -> Malformed
                 [] outcome = "ok" -> Json(state_dict)
    /\ dumped' = CASE outcome = "NotReversible" -> None
                   [] outcome = "OSError" -> None
                   [] outcome = "ok" -> Some(Session)

\* outcome "NotReversible": reverse raises while the dict is built;
\* outcome "OSError": the write fails after open(STATE_FILE, 'w') truncated the file
dump_state(outcome) ==
    /\ outcome = "NotReversible" => (current_song # None \/ playlist # <<>>)
    /\ file' = CASE outcome = "NotReversible" -> file
                 [] outcome = "OSError" -> Malformed
                 [] outcome = "ok" -> Json(state_dict)
    /\ dumped' = CASE outcome = "NotReversible" -> dumped
                   [] outcome = "OSError" -> None
                   [] outcome = "ok" -> Some(Session)

(***************************************************************************)
(* _shutdown_app and the exit of run_app                                   *)
(***************************************************************************)
\* the player stopped before about_to_shutdown is emitted
_shutdown_app_stop_first(outcome) ==
    /\ shutdown_calls' = shutdown_calls + 1
    /\ dump_state(outcome)
    /\ pstate' = "stopped"
    /\ media' = None
    /\ pending' = FALSE
    /\ IF outcome = "ok"
       THEN /\ alive' = FALSE
            /\ aio_support' = FALSE
            /\ raised' = None
            /\ trace' = trace \o <<"player.stop", "about_to_shutdown", "dump_state",
                                   "player.shutdown", "teardown_aio_support">>
       ELSE /\ raised' = Some(outcome)
            /\ trace' = trace \o <<"player.stop", "about_to_shutdown">>
            /\ UNCHANGED <<alive, aio_support>>
    /\ UNCHANGED <<mode, library, volume, playback_mode, playlist, current_song, position,
                   play_range, receivers, ui_shown, exit_cause, error_logged, runs, resumes, steps,
                   compVars, actionVars>>

\* about_to_shutdown.emit(app) runs dump_state; an exception of a receiver
\* leaves emit and _shutdown_app
_shutdown_app(outcome) ==
    /\ shutdown_calls' = shutdown_calls + 1
    /\ dump_state(outcome)
    /\ IF outcome = "ok"
       THEN /\ pstate' = "stopped"
            /\ media' = None
            /\ pending' = FALSE
            /\ alive' = FALSE
            /\ aio_support' = FALSE
            /\ raised' = None
            /\ trace' = trace \o <<"about_to_shutdown", "dump_state", "player.stop",
                                   "player.shutdown", "teardown_aio_support">>
       ELSE /\ raised' = Some(outcome)
            /\ trace' = trace \o <<"about_to_shutdown">>
            /\ UNCHANGED <<pstate, media, pending, alive, aio_support>>
    /\ UNCHANGED <<mode, library, volume, playback_mode, playlist, current_song, position,
                   play_range, receivers, ui_shown, exit_cause, error_logged, runs, resumes, steps,
                   compVars, actionVars>>

ExitCauses == {"stop", "KeyboardInterrupt", "Exception"}

\* loop.run_forever() returns or raises
loop_exit(cause) ==
    /\ phase = "running"
    /\ phase' = "finally"
    /\ exit_cause' = Some(cause)
    /\ UNCHANGED <<mode, library, file, playerVars, alive, aio_support, raised,
                   error_logged, trace, shutdown_calls, runs, resumes, dumped, steps,
                   compVars, actionVars>>

ExitCausesOnce == {"complete", "KeyboardInterrupt", "Exception"}

\* loop.run_until_complete(future) returns or raises
loop_exit_once(cause) ==
    /\ phase = "running_once"
    /\ phase' = "finally"
    /\ exit_cause' = Some(cause)
    /\ UNCHANGED <<mode, library, file, playerVars, alive, aio_support, raised,
                   error_logged, trace, shutdown_calls, runs, resumes, dumped, steps,
                   compVars, actionVars>>

\* the shutdown routine left out when the loop was interrupted
finally_shutdown_not_on_interrupt(outcome) ==
    /\ phase = "finally"
    /\ IF exit_cause = Some("KeyboardInterrupt")
       THEN /\ outcome = "ok"
            /\ phase' = "closing"
            /\ UNCHANGED <<restVars, raised, attrs, started, tasks>>
       ELSE /\ _shutdown_app(outcome)
            /\ phase' = IF outcome = "ok" THEN "closing" ELSE "crashed"

\* finally: _shutdown_app(app)
finally_shutdown(outcome) ==
    /\ phase = "finally"
    /\ _shutdown_app(outcome)
    /\ phase' = IF outcome = "ok" THEN "closing" ELSE "crashed"

\* finally: loop.stop(); loop.close(); an exception other than
\* KeyboardInterrupt then leaves run_app
loop_stop_close ==
    /\ phase = "closing"
    /\ trace' = trace \o <<"loop.stop", "loop.close">>
    /\ phase' = "stopped"
    /\ raised' = IF exit_cause = Some("Exception") THEN exit_cause ELSE None
    /\ UNCHANGED <<mode, library, file, playerVars, alive, aio_support, exit_cause,
                   error_logged, shutdown_calls, runs, resumes, dumped, steps,
                   compVars, actionVars>>

\* a caller runs the shutdown routine once more after it has completed
shutdown_again(outcome) ==
    /\ phase = "stopped"
    /\ shutdown_calls < MaxShutdownCalls
    /\ _shutdown_app(outcome)
    /\ phase' = IF outcome = "ok" THEN "stopped" ELSE "crashed"

\* the program is started again: a new process, the same state file, and
\* the providers its plugins register
restart ==
    /\ phase \in {"stopped", "crashed"}
    /\ runs < MaxRuns
    /\ runs' = runs + 1
    /\ library' \in SUBSET Providers
    /\ volume' = Fresh.volume
    /\ playback_mode' = Fresh.playback_mode
    /\ playlist' = Fresh.playlist
    /\ current_song' = Fresh.current_song
    /\ media' = Fresh.media
    /\ pending' = Fresh.pending
    /\ pstate' = Fresh.pstate
    /\ position' = Fresh.position
    /\ play_range' = Fresh.play_range
    /\ receivers' = Fresh.receivers
    /\ alive' = Fresh.alive
    /\ aio_support' = Fresh.aio_support
    /\ ui_shown' = Fresh.ui_shown
    /\ phase' = Fresh.phase
    /\ exit_cause' = Fresh.exit_cause
    /\ raised' = Fresh.raised
    /\ error_logged' = Fresh.error_logged
    /\ trace' = Fresh.trace
    /\ shutdown_calls' = Fresh.shutdown_calls
    /\ resumes' = Fresh.resumes
    /\ tasks' = {}
    /\ started' = init_app_started(mode)
    /\ UNCHANGED <<mode, file, dumped, steps, attrs, platform, actionVars>>

Next ==
    \/ initialized_emit
    \/ run_app
    \/ \E v \in Volumes : set_volume(v)
    \/ \E m \in UserModes : set_playback_mode(m)
    \/ \E s \in Songs : playlist_add(s)
    \/ \E s \in Songs : play_song(s)
    \/ player_play
    \/ \E p \in Positions : position_changed(p)
    \/ toggle
    \/ \E c \in ExitCauses : loop_exit(c)
    \/ \E o \in DumpOutcomes : finally_shutdown(o)
    \/ loop_stop_close
    \/ \E o \in DumpOutcomes : shutdown_again(o)
    \/ restart

Spec == Init /\ [][Next]_vars

(***************************************************************************)
(* Restoring from any state file: a process started on a file written by   *)
(* an earlier session, with any set of providers registered.               *)
(***************************************************************************)
InitRestore ==
    /\ mode \in AppModes
    /\ library \in SUBSET Providers
    /\ file \in {Absent, Malformed, Misshapen} \cup {Json(s) : s \in SessionStates}
    /\ runs = 1
    /\ dumped = None
    /\ steps = 0
    /\ platform = "linux"
    /\ NoAction
    /\ FreshProcess

NextRestore ==
    \/ initialized_emit
    \/ run_app
    \/ \E s \in Songs : play_song(s)
    \/ player_play
    \/ toggle

SpecRestore == InitRestore /\ [][NextRestore]_vars

(***************************************************************************)
(* Composition by mode: an app of any combination of the mode bits, from   *)
(* its construction through attach_attrs, init_app, load_state and run_app *)
(* with the tasks of its loop, to the end of run_app.                      *)
(***************************************************************************)
\* a state file with one playlist entry and no current song
OneSongFile ==
    Json([playback_mode |-> PlaybackModeValue("sequential"),
          volume |-> 50,
          state |-> StateValue("paused"),
          song |-> None,
          position |-> None,
          playlist |-> <<reverse([source |-> "local", identifier |-> 1])>>])

\* FApp(config) has returned: no attribute is attached yet
InitModes ==
    /\ mode \in AllModes
    /\ platform \in Platforms
    /\ library = Providers
    /\ file \in {Absent, OneSongFile}
    /\ runs = 1
    /\ dumped = None
    /\ steps = 0
    /\ NoAction
    /\ FreshSession
    /\ phase = "constructed"
    /\ attrs = <<>>
    /\ started = {}
    /\ tasks = {}

NextModes ==
    \/ attach_attrs
    \/ init_app
    \/ initialized_emit
    \/ run_app
    \/ run_app_once
    \/ call_later_due
    \/ \E b \in BOOLEAN : server_run(b)
    \/ \E b \in BOOLEAN : start_server(b)
    \/ \E c \in ExitCauses : loop_exit(c)
    \/ \E c \in ExitCausesOnce : loop_exit_once(c)
    \/ \E o \in DumpOutcomes : finally_shutdown(o)
    \/ loop_stop_close

SpecModes == InitModes /\ [][NextModes]_vars

(***************************************************************************)
(* App.create_action: a with-block reporting its start, its progress and   *)
(* its outcome through show_msg. The blocks nest; actions[i] is the i-th   *)
(* call, open while its block runs, and the innermost open block is the    *)
(* open call made last.                                                    *)
(***************************************************************************)
Descs == {"fetch", "save"}          \* s, the description of the operation
FailMsgs == {"", "timeout"}         \* msg of Action.failed, '' by default
\* value of Action.set_progress, in thousandths
Fractions == {0, 555, 1000}

\* exceptions a block can raise besides ActionError: one that derives from
\* Exception, one that derives from BaseException only
ExceptionTypes == {"ValueError"}
BaseExceptionTypes == {"KeyboardInterrupt"}

\* ActionError(msg) of the class defined by the i-th create_action call
ActionError(i, msg) == [type |-> "ActionError", owner |-> i, msg |-> msg]
\* another exception; str(e) is its message
OtherError(t, msg) == [type |-> t, owner |-> 0, msg |-> msg]

\* int(value * 100)
Percent(value) == (value * 100) \div 1000

\* one show_msg call of the i-th create_action call: s + '...' is "started",
\* s + '...{}%' "progress", s + '...failed\t{}' "failed",
\* s + '...error\t{}' "error", s + '...done' "done"
Report(i, kind, text) == [action |-> i, s |-> actions[i].s, kind |-> kind, text |-> text]

Open(i) == i \in 1..Len(actions) /\ actions[i].status = "open"
InBlock == \E i \in 1..Len(actions) : Open(i)
\* the call whose block is the innermost one running
Innermost == CHOOSE i \in 1..Len(actions) : Open(i) /\ \A j \in 1..Len(actions) : Open(j) => j <= i

Close(i, status) == [actions EXCEPT ![i].status = status]

\* with app.create_action(s) as action: the start is reported, the block entered
create_action(s) ==
    /\ exc = None
    /\ Len(actions) < MaxActions
    /\ actions' = Append(actions, [s |-> s, status |-> "open"])
    /\ msgs' = Append(msgs, [action |-> Len(actions) + 1, s |-> s, kind |-> "started",
                              text |-> ""])
    /\ UNCHANGED <<exc, appVars>>

\* action.set_progress(value) in a block, action being any action in scope
set_progress(i, value) ==
    /\ exc = None
    /\ Open(i)
    /\ Cardinality({k \in 1..Len(msgs) : msgs[k].kind = "progress"}) < MaxProgress
    /\ msgs' = Append(msgs, Report(i, "progress", Percent(value)))
    /\ UNCHANGED <<actions, exc, appVars>>

\* action.failed(msg) in a block, action being any action in scope:
\* raise ActionError(msg) of the class of that action's call
failed(i, msg) ==
    /\ exc = None
    /\ Open(i)
    /\ exc' = Some(ActionError(i, msg))
    /\ UNCHANGED <<actions, msgs, appVars>>

\* a statement of the innermost block raises another exception
block_raises(t, msg) ==
    /\ exc = None
    /\ InBlock
    /\ exc' = Some(OtherError(t, msg))
    /\ UNCHANGED <<actions, msgs, appVars>>

\* the innermost block ends without an exception: else: show_msg(s + '...done')
create_action_else ==
    /\ exc = None
    /\ InBlock
    /\ actions' = Close(Innermost, "done")
    /\ msgs' = Append(msgs, Report(Innermost, "done", ""))
    /\ UNCHANGED <<exc, appVars>>

\* the except Exception clause without its raise
except_clauses_swallow(i, e) ==
    IF e.type = "ActionError" /\ e.owner = i
    THEN [status |-> "failed", report |-> Some(Report(i, "failed", e.msg)), exc |-> None]
    ELSE IF e.type \in ExceptionTypes \cup {"ActionError"}
    THEN [status |-> "error", report |-> Some(Report(i, "error", e.msg)), exc |-> None]
    ELSE [status |-> "aborted", report |-> None, exc |-> Some(e)]

\* one ActionError class shared by every create_action call
except_clauses_shared_class(i, e) ==
    IF e.type = "ActionError"
    THEN [status |-> "failed", report |-> Some(Report(i, "failed", e.msg)), exc |-> None]
    ELSE IF e.type \in ExceptionTypes
    THEN [status |-> "error", report |-> Some(Report(i, "error", e.msg)), exc |-> Some(e)]
    ELSE [status |-> "aborted", report |-> None, exc |-> Some(e)]

\* the except clauses of the i-th call on exception e: except ActionError
\* catches the class of this call only and swallows it; except Exception
\* reports and raises again; an exception that is no Exception passes
\* both clauses
except_clauses(i, e) ==
    IF e.type = "ActionError" /\ e.owner = i
    THEN [status |-> "failed", report |-> Some(Report(i, "failed", e.msg)), exc |-> None]
    ELSE IF e.type \in ExceptionTypes \cup {"ActionError"}
    THEN [status |-> "error", report |-> Some(Report(i, "error", e.msg)), exc |-> Some(e)]
    ELSE [status |-> "aborted", report |-> None, exc |-> Some(e)]

\* an exception leaves the innermost block and reaches create_action
create_action_except ==
    /\ exc # None
    /\ InBlock
    /\ LET out == except_clauses(Innermost, exc[1])
       IN /\ actions' = Close(Innermost, out.status)
          /\ msgs' = msgs \o out.report
          /\ exc' = out.exc
    /\ UNCHANGED appVars

\* a process in which blocks of create_action run
InitAction ==
    /\ mode = GuiMode
    /\ platform = "linux"
    /\ library = Providers
    /\ file = Absent
    /\ runs = 1
    /\ dumped = None
    /\ steps = 0
    /\ NoAction
    /\ FreshProcess

NextAction ==
    \/ \E s \in Descs : create_action(s)
    \/ \E i \in 1..MaxActions, v \in Fractions : set_progress(i, v)
    \/ \E i \in 1..MaxActions, m \in FailMsgs : failed(i, m)
    \/ \E t \in ExceptionTypes \cup BaseExceptionTypes : block_raises(t, "boom")
    \/ create_action_else
    \/ create_action_except

SpecAction == InitAction /\ [][NextAction]_vars

(***************************************************************************)
(* Properties                                                              *)
(***************************************************************************)
\* the step in which initialized is emitted and load_state runs
LoadStep == phase = "attached" /\ phase' # "attached"

\* the step in which player.play emits media_about_to_changed
EmitStep == phase = "running" /\ phase' = "running" /\ pending /\ ~pending'

\* C1: when load_state has run on a persisted playlist of N references of
\* which M do not resolve, the live playlist holds exactly the N-M resolved
\* songs, the k-th of them being the song of the k-th resolvable reference,
\* and load_state has not raised; with N = M the playlist is empty.
C1_ResolvedSongsInOrder ==
    (phase = "initialized" /\ file.kind = "json") =>
        LET refs == file.value.playlist
            resolvable == {i \in 1..Len(refs) : refs[i][2] \in library}
            failing == {i \in 1..Len(refs) : refs[i][2] \notin library}
            nth(k) == CHOOSE i \in resolvable : Cardinality({j \in resolvable : j < i}) = k - 1
        IN /\ Len(playlist) = Len(refs) - Cardinality(failing)
           /\ \A k \in 1..Len(playlist) : reverse(playlist[k]) = refs[nth(k)]
           /\ raised = None

\* three references, the middle one unresolvable, the other two distinct
C1_Witness ==
    /\ phase = "initialized"
    /\ file.kind = "json"
    /\ Len(file.value.playlist) = 3
    /\ file.value.playlist[1][2] \in library
    /\ file.value.playlist[2][2] \notin library
    /\ file.value.playlist[3][2] \in library
    /\ file.value.playlist[1] # file.value.playlist[3]
    /\ Len(playlist) = 2

\* every song of the dumped session resolves in this process
DumpResolves ==
    /\ dumped # None
    /\ \A i \in 1..Len(dumped[1].playlist) : dumped[1].playlist[i].source \in library
    /\ dumped[1].song # None => dumped[1].song[1].source \in library

\* C2: round trip: when a process has loaded the file a completed dump_state
\* wrote, and every dumped song resolves, its playlist is the dumped ordered
\* list, its volume and playback mode are the dumped ones, and the dumped
\* current song is loaded, paused, with the play range at the dumped position.
C2_RoundTrip ==
    (phase = "initialized" /\ DumpResolves) =>
        /\ playlist = dumped[1].playlist
        /\ volume = dumped[1].volume
        /\ playback_mode = dumped[1].playback_mode
        /\ current_song = dumped[1].song
        /\ dumped[1].song # None =>
              /\ play_range = Some(dumped[1].position)
              /\ pstate = "paused"

\* a session of two songs, one of them current, at a changed volume
C2_Witness ==
    /\ phase = "initialized"
    /\ DumpResolves
    /\ Len(dumped[1].playlist) = 2
    /\ dumped[1].song = Some(dumped[1].playlist[2])
    /\ dumped[1].volume # Fresh.volume
    /\ playlist = dumped[1].playlist

ShutdownTrace ==
    <<"about_to_shutdown", "dump_state", "player.stop", "player.shutdown",
      "teardown_aio_support", "loop.stop", "loop.close">>

\* the event that directly precedes e in a shutdown
Before(e) ==
    CASE e = "dump_state" -> "about_to_shutdown"
      [] e = "player.stop" -> "dump_state"
      [] e = "player.shutdown" -> "player.stop"
      [] e = "teardown_aio_support" -> "player.shutdown"
      [] e = "loop.stop" -> "teardown_aio_support"
      [] e = "loop.close" -> "loop.stop"

\* C3: the shutdown events occur in the fixed order: every event other than
\* about_to_shutdown directly follows its predecessor in the sequence
\* about_to_shutdown, dump_state, player.stop, player.shutdown,
\* teardown_aio_support, loop.stop, loop.close (so the player is never
\* stopped before dump_state has run), and a run_app that has finished its
\* finally block has gone through exactly this sequence.
C3_ShutdownOrder ==
    /\ \A i \in 1..Len(trace) :
          trace[i] # "about_to_shutdown" => (i > 1 /\ trace[i - 1] = Before(trace[i]))
    /\ (phase = "stopped" /\ shutdown_calls = 1) => trace = ShutdownTrace

C3_Witness == phase = "stopped" /\ shutdown_calls = 1 /\ trace = ShutdownTrace

\* C4 (as claimed): once _shutdown_app has been entered and left, whether or
\* not dump_state failed, the player is stopped and shut down and the bus
\* async support is torn down.
C4_ShutdownCompletesDespiteFailure ==
    (shutdown_calls > 0 /\ phase \in {"closing", "stopped", "crashed"}) =>
        (pstate = "stopped" /\ ~alive /\ ~aio_support)

\* C5 (as claimed): a second call of the shutdown routine after it has
\* completed emits nothing, writes nothing and stops nothing again.
C5_SecondShutdownNoEffect ==
    [][(phase = "stopped" /\ shutdown_calls' = shutdown_calls + 1) =>
           (trace' = trace /\ file' = file /\ alive' = alive /\ pstate' = pstate)]_vars

\* C6 (as claimed): whenever the content of the state file changes, the new
\* content is a complete snapshot.
C6_FileReplacedWholesale == [][file' # file => file'.kind = "json"]_vars

\* C7: when the state file does not exist, load_state returns without
\* raising and changes nothing of the player, the playlist, the hooks.
C7_AbsentFileNoEffect ==
    [][(LoadStep /\ file.kind = "absent") =>
           (raised' = None /\ phase' = "initialized" /\ error_logged' = error_logged
            /\ UNCHANGED playerVars)]_vars

C7_Witness == phase = "initialized" /\ file.kind = "absent"

SongResolves ==
    /\ file.kind = "json"
    /\ file.value.song # None
    /\ file.value.song[1][2] \in library

\* C9: whenever the persisted current-song reference resolves, load_state
\* ends with the player paused, the play range at the persisted position,
\* the resolved song loaded and the resume hook connected, whatever the
\* playlist references did.
C9_PreloadWhenSongResolves ==
    (phase = "initialized" /\ SongResolves) =>
        LET ref == file.value.song[1]
        IN /\ pstate = "paused"
           /\ play_range = file.value.position
           /\ current_song # None
           /\ reverse(current_song[1]) = ref
           /\ receivers = {Hook(current_song[1])}
           /\ pending

\* the current song resolves, is not among the installed entries, and a
\* playlist reference failed to resolve
C9_Witness ==
    /\ phase = "initialized"
    /\ SongResolves
    /\ file.value.position = Some(15)
    /\ \E i \in 1..Len(file.value.playlist) : file.value.playlist[i][2] \notin library
    /\ playlist # <<>>
    /\ \A i \in 1..Len(playlist) : Some(playlist[i]) # current_song
    /\ pstate = "paused"

\* C10: the resume hook is one-shot. An emission of media_about_to_changed
\* with old_media None while the playlist's current song is the restored
\* song leaves the hook connected and resumes nothing; the first emission
\* with old_media not None or another current song disconnects the hook,
\* clears the play range and resumes the player; the hook resumes playback
\* at most once per load and is not connected once it has.
C10_ResumeHookOneShot ==
    /\ [][\A h \in receivers :
             EmitStep =>
                IF media = None /\ current_song = Some(h.song)
                THEN /\ h \in receivers'
                     /\ resumes' = resumes
                     /\ pstate' = pstate
                     /\ play_range' = play_range
                ELSE /\ h \notin receivers'
                     /\ resumes' = resumes + 1
                     /\ pstate' = "playing"
                     /\ play_range' = None]_vars
    /\ [](resumes <= 1 /\ (resumes = 1 => receivers = {}))

\* three steps after a load that set a play range: the emission for the
\* restored song (the hook stays quiet), the same song played again, and the
\* emission with old_media set, on which the hook has fired
C10_Witness ==
    /\ phase = "running"
    /\ SongResolves
    /\ file.value.position # None
    /\ steps = 3
    /\ media = Some(resolve(file.value.song[1]))
    /\ resumes = 1
    /\ receivers = {}
    /\ pstate = "playing"
    /\ play_range = None

\* C11: when the persisted current-song reference is null or does not
\* resolve, load_state still applies the persisted volume and playback mode
\* and installs the resolved playlist, and does not raise, but it does not
\* pause the player, sets no play range, loads no song and connects no hook.
C11_NoPreloadWhenSongUnresolved ==
    [][(LoadStep /\ file.kind = "json" /\ ~SongResolves) =>
           LET refs == file.value.playlist
           IN /\ volume' = file.value.volume
              /\ PlaybackModeValue(playback_mode') = file.value.playback_mode
              /\ Len(playlist') = Cardinality({i \in 1..Len(refs) : refs[i][2] \in library})
              /\ \A i \in 1..Len(playlist') : reverse(playlist'[i]) \in Range(refs)
              /\ raised' = None
              /\ phase' = "initialized"
              /\ UNCHANGED <<pstate, play_range, current_song, media, pending, receivers>>]_vars

\* a current-song reference of an unregistered provider next to a playlist
\* that resolves, at a volume and playback mode other than the defaults
C11_Witness ==
    /\ phase = "initialized"
    /\ file.kind = "json"
    /\ file.value.song # None
    /\ file.value.song[1][2] \notin library
    /\ file.value.position # None
    /\ playlist # <<>>
    /\ volume = file.value.volume
    /\ volume # Fresh.volume
    /\ playback_mode # Fresh.playback_mode
    /\ pstate = "stopped"
    /\ play_range = None
    /\ current_song = None
    /\ receivers = {}

\* a shutdown in which reversing a song failed
ReverseFailed == shutdown_calls' = shutdown_calls + 1 /\ raised' = Some("NotReversible")

\* C18: dump_state reverses the current song and every playlist entry
\* before it opens the state file: when reversing fails, the failure leaves
\* dump_state and the file keeps the content it had.
C18_ReverseFailureKeepsFile ==
    [][ReverseFailed => (file' = file /\ dumped' = dumped /\ phase' = "crashed")]_vars

\* the second process fails to reverse a song on shutdown; the file still
\* holds the session the first process wrote
C18_Witness ==
    /\ runs = 2
    /\ phase = "crashed"
    /\ raised = Some("NotReversible")
    /\ file.kind = "json"
    /\ dumped # None
    /\ file.value.playlist # <<>>

\* a listener task of the daemon ended on a bind that failed
BindFailed ==
    Task("server.run", "failed") \in tasks \/ Task("start_server", "failed") \in tasks

\* C12 (as claimed): in daemon mode a failure to bind the port of the
\* Command Server or of the Pub/Sub Gateway is fatal: the process does not
\* go on running its main loop.
C12_BindFailureFatal ==
    (HasBit(mode, DaemonMode) /\ BindFailed) => phase # "running"

\* run_app has handed a task of this name to the loop
Scheduled(n) == \E t \in tasks : t.name = n

\* C14: run_app and run_app_once leave their loop only into the finally
\* block, whatever ended the loop (it finished, KeyboardInterrupt, another
\* exception); the finally block calls _shutdown_app, exactly once; and
\* what the shutdown goes through does not depend on how the loop ended:
\* the full sequence, then loop.stop and loop.close, when _shutdown_app
\* returns, and about_to_shutdown alone when dump_state raised.
C14_ShutdownOnEveryExit ==
    /\ [][(phase \in {"running", "running_once"} /\ phase' # phase) =>
             (phase' = "finally" /\ exit_cause' # None /\ shutdown_calls' = 0)]_vars
    /\ [][(phase = "finally" /\ phase' # "finally") =>
             (shutdown_calls' = 1 /\ trace' # <<>> /\ trace'[1] = "about_to_shutdown")]_vars
    /\ [](phase = "closing" =>
             (shutdown_calls = 1 /\ trace = SubSeq(ShutdownTrace, 1, 5)))
    /\ []((phase = "stopped" /\ shutdown_calls = 1) => trace = ShutdownTrace)
    /\ []((phase = "crashed" /\ exit_cause # None /\ shutdown_calls = 1) =>
             trace = <<"about_to_shutdown">>)

\* a daemon whose run_forever was ended by KeyboardInterrupt has gone
\* through the whole sequence
C14_Witness ==
    /\ phase = "stopped"
    /\ exit_cause = Some("KeyboardInterrupt")
    /\ Scheduled("server.run")
    /\ shutdown_calls = 1
    /\ trace = ShutdownTrace

\* C15: for every combination of the mode bits, run_app schedules the
\* delayed version check exactly when the Daemon or the Gui bit is set and
\* the Command Server task and the Pub/Sub listener task exactly when the
\* Daemon bit is set; with neither bit nothing is scheduled when the loop
\* starts; nothing is scheduled before run_app.
C15_TasksByMode ==
    /\ phase = "running" =>
          /\ Scheduled("check_release") <=>
                (HasBit(mode, DaemonMode) \/ HasBit(mode, GuiMode))
          /\ Scheduled("server.run") <=> HasBit(mode, DaemonMode)
          /\ Scheduled("start_server") <=> HasBit(mode, DaemonMode)
          /\ (~HasBit(mode, DaemonMode) /\ ~HasBit(mode, GuiMode)) => tasks = {}
    /\ phase \in {"constructed", "created", "attached", "initialized"} => tasks = {}

\* Gui and Cli without Daemon: the version check alone is scheduled
C15_Witness ==
    /\ phase = "running"
    /\ mode = GuiMode + CliMode
    /\ tasks = {Task("check_release", "delayed")}

\* the position at which attach_attrs set app.<name>
Index(name) == CHOOSE i \in 1..Len(attrs) : attrs[i] = name

\* C16: after attach_attrs, for every combination of the mode bits, the
\* server, the pubsub gateway and the live-lyric publisher exist exactly
\* when the Daemon bit is set, the ui and its managers exist exactly when
\* the Gui bit is set, and player, playlist and plugin manager exist in
\* every mode and were set before any attribute that depends on the mode.
C16_AttrsByMode ==
    phase # "constructed" =>
        /\ \A n \in {"server", "pubsub_gateway", "_ll_publisher"} :
              Has(n) <=> HasBit(mode, DaemonMode)
        /\ \A n \in {"ui", "coll_mgr", "theme_mgr", "tips_mgr", "hotkey_mgr", "img_mgr",
                      "pvd_uimgr", "pl_uimgr", "mymusic_uimgr", "coll_uimgr", "browser"} :
              Has(n) <=> HasBit(mode, GuiMode)
        /\ \A c \in {"player", "playlist", "plugin_mgr"} :
              /\ Has(c)
              /\ \A i \in 1..Len(attrs) :
                    attrs[i] \notin Range(CoreAttrs) => Index(c) < i

\* Daemon and Cli without Gui: the server is there, the ui is not
C16_Witness ==
    /\ phase = "created"
    /\ mode = DaemonMode + CliMode
    /\ Has("server")
    /\ Has("version_mgr")
    /\ ~Has("ui")
    /\ Index("player") < Index("server")

\* C17: in no sequence of attach_attrs, init_app, load_state, run_app and
\* the shutdown does a step read an attribute of app that its mode did not
\* construct: no step ends in AttributeError, and the process never stops
\* short of its next step for a missing attribute.
C17_NoAbsentSubsystemRead ==
    /\ raised # Some("AttributeError")
    /\ phase = "created" => \A n \in init_app_reads(mode) : Has(n)
    /\ phase = "initialized" => \A n \in run_app_reads(mode) : Has(n)
    /\ (phase = "attached" /\ HasBit(mode, GuiMode)) => Has("ui")

\* a Gui app that showed the restored playlist, ran its loop with the
\* version check scheduled and went through the shutdown
C17_Witness ==
    /\ phase = "stopped"
    /\ mode = GuiMode
    /\ file.kind = "json"
    /\ ui_shown
    /\ Scheduled("check_release")
    /\ raised = None

\* the reports of the i-th create_action call, in order
Reports(i) == SelectSeq(msgs, LAMBDA r : r.action = i)

Terminal == {"done", "failed", "error"}

\* the step in which the block of the i-th create_action call is left
ExitStep(i) == Open(i) /\ actions'[i].status # "open"

\* C13 (as claimed): every use of create_action reports started first,
\* then progress updates only, and, once its block is left, exactly one
\* terminal report (done, failed or error) as its last report.
C13_OneTerminalReport ==
    \A i \in 1..Len(actions) :
        LET r == Reports(i)
        IN /\ r # <<>>
           /\ r[1].kind = "started"
           /\ \A k \in 2..Len(r) :
                 r[k].kind = "progress" \/ (k = Len(r) /\ r[k].kind \in Terminal)
           /\ Open(i) => \A k \in 2..Len(r) : r[k].kind = "progress"
           /\ ~Open(i) => (Len(r) >= 2 /\ r[Len(r)].kind \in Terminal)

\* C13 (amended): every use of create_action reports started first, then
\* progress updates only, and its block is left in one of four ways. It
\* completes: done is reported and nothing is raised. failed(msg) of this
\* action was called: failed is reported with msg and nothing propagates.
\* Another exception that derives from Exception was raised: error is
\* reported with its message and the same exception propagates. An
\* exception that does not derive from Exception (KeyboardInterrupt) was
\* raised: nothing is reported and it propagates. The terminal report is
\* the last report of the action, and while an exception is in flight no
\* statement of a block reports anything.
C13_TerminalReportUnlessBaseException ==
    /\ [](\A i \in 1..Len(actions) :
            LET r == Reports(i)
                st == actions[i].status
            IN /\ r # <<>>
               /\ r[1].kind = "started"
               /\ \A k \in 2..Len(r) :
                     r[k].kind = "progress" \/ (k = Len(r) /\ r[k].kind = st)
               /\ st \in Terminal => (Len(r) >= 2 /\ r[Len(r)].kind = st)
               /\ st \in {"open", "aborted"} => \A k \in 2..Len(r) : r[k].kind = "progress")
    /\ [][\A i \in 1..Len(actions) :
             ExitStep(i) =>
                LET st == actions'[i].status
                    told(kind, text) ==
                        msgs' = Append(msgs, [action |-> i, s |-> actions[i].s,
                                              kind |-> kind, text |-> text])
                IN IF exc = None
                   THEN st = "done" /\ told("done", "") /\ exc' = None
                   ELSE IF exc[1].type = "ActionError" /\ exc[1].owner = i
                   THEN st = "failed" /\ told("failed", exc[1].msg) /\ exc' = None
                   ELSE IF exc[1].type \notin BaseExceptionTypes
                   THEN st = "error" /\ told("error", exc[1].msg) /\ exc' = exc
                   ELSE st = "aborted" /\ msgs' = msgs /\ exc' = exc]_vars
    /\ [][exc # None =>
             (msgs' = msgs \/ msgs'[Len(msgs')].kind \in {"failed", "error"})]_vars

\* one action that reported 55% and then left its block on a ValueError,
\* which is on its way to the caller
C13_Witness ==
    /\ Len(actions) = 1
    /\ actions[1].status = "error"
    /\ Len(msgs) = 3
    /\ msgs[1].kind = "started"
    /\ msgs[2].kind = "progress"
    /\ msgs[2].text = 55
    /\ msgs[3].kind = "error"
    /\ msgs[3].text = "boom"
    /\ exc = Some(OtherError("ValueError", "boom"))

\* C19: every create_action call has an ActionError class of its own. When
\* the ActionError raised by failed(msg) of the j-th call leaves the block
\* of the i-th call, the wrapper of another call (i # j) reports error with
\* msg and the exception goes on propagating, and the wrapper of the call
\* itself (i = j) reports failed with msg and nothing propagates.
C19_FailedAbsorbedByOwnWrapperOnly ==
    [][\A i, j \in 1..Len(actions) :
          (ExitStep(i) /\ exc # None /\ exc[1].type = "ActionError" /\ exc[1].owner = j) =>
              LET last == msgs'[Len(msgs')]
              IN /\ Len(msgs') = Len(msgs) + 1
                 /\ last.action = i
                 /\ last.text = exc[1].msg
                 /\ IF i = j
                    THEN last.kind = "failed" /\ actions'[i].status = "failed" /\ exc' = None
                    ELSE last.kind = "error" /\ actions'[i].status = "error" /\ exc' = exc]_vars

\* two nested actions, failed("timeout") of the outer one called in the
\* inner block: the inner wrapper reported error, then the outer one failed
C19_Witness ==
    /\ Len(actions) = 2
    /\ actions[1].status = "failed"
    /\ actions[2].status = "error"
    /\ Len(msgs) = 4
    /\ msgs[2] = [action |-> 2, s |-> actions[2].s, kind |-> "started", text |-> ""]
    /\ msgs[3] = [action |-> 2, s |-> actions[2].s, kind |-> "error", text |-> "timeout"]
    /\ msgs[4] = [action |-> 1, s |-> actions[1].s, kind |-> "failed", text |-> "timeout"]
    /\ exc = None
====
